---- MODULE Spec2Model ----
(***************************************************************************)
(* State-machine model of src/rkmpp/mpp_final_encoder.cc: the MPP encoder  *)
(* session controller (MPPFinalEncoder), its two configuration strategies  *)
(* (MPPMJPEGConfig, MPPCommonConfig) and the bitrate derivation            *)
(* (CalcMppBpsWithMax).                                                    *)
(*                                                                         *)
(* assert() is modelled as compiled in (no NDEBUG): a failed assertion     *)
(* aborts the process.                                                     *)
(***************************************************************************)
EXTENDS Integers, Sequences, FiniteSets, TLC

VARIABLES
  coding_type,  \* MPPEncoder::coding_type, fixed by the constructor
  mpp_config,   \* MPPFinalEncoder::mpp_config: "null", "mjpeg" or "common"
  enc_cfg,      \* MPPConfig::enc_cfg handle: "none", "null", "live", "freed"
  cfgobj,       \* contents of the hardware configuration object: key -> value
  hw,           \* the hardware control channel's state
  config,       \* the session's cached MediaConfig (MPPEncoder::GetConfig())
  statistics,   \* the process-wide statistics switch
  proc,         \* "running", "aborted" (assertion fault) or "destroyed"
  last,         \* the call that has returned to the caller, with its trace
  calc,         \* the CalcMppBpsWithMax call made by that call
  faults,       \* hardware/library failures injected so far
  configured    \* history: some InitConfig call has returned true

vars == <<coding_type, mpp_config, enc_cfg, cfgobj, hw, config, statistics,
          proc, last, calc, faults, configured>>

----------------------------------------------------------------------------
(* Program constants.                                                      *)

kMPPMinBps == 2000
kMPPMaxBps == 98000000

(* Bounds of the model.                                                    *)
MaxOff == 3          \* ceilings this close to each limit are all tried
LowSpan == 4500      \* every ceiling in kMPPMinBps .. kMPPMinBps+LowSpan
GridN == 98          \* number of ceilings sampled across the whole range
GridStep == 999983   \* distance between two sampled ceilings
MaxFaults == 1       \* library/channel failures injected per session
MaxRoi == 1          \* region records in a region-of-interest payload

----------------------------------------------------------------------------
(* The bitrate derivation.                                                 *)

RcModes == {"VBR", "CBR", "FIXQP", "BUTT"}

(* C's int division truncates toward zero; \div floors. They agree on the  *)
(* non-negative operands used here; negative ones are mapped explicitly.   *)
CDiv(a, b) == IF a >= 0 THEN a \div b ELSE -((-a) \div b)

(* CalcClamp without the recentring of a target left below the minimum.    *)
CalcClamp_NoRecentre(bps_max, bps_min, bps_target) ==
  [ret |-> 0, bps_max |-> bps_max,
   bps_min |-> IF bps_min < kMPPMinBps THEN kMPPMinBps ELSE bps_min,
   bps_target |-> bps_target]

(* The by-reference arguments are returned in a record; on failure they    *)
(* keep the values the caller passed in.                                   *)
CalcClamp(bps_max, bps_min, bps_target) ==
  LET mn == IF bps_min < kMPPMinBps THEN kMPPMinBps ELSE bps_min
      tg == IF bps_target < mn THEN CDiv(mn + bps_max, 2) ELSE bps_target
  IN  [ret |-> 0, bps_max |-> bps_max, bps_min |-> mn, bps_target |-> tg]

(* CalcMppBpsWithMax with the constant-rate minimum taken as 14/17.        *)
CalcMppBpsWithMax_Cbr14(rc_mode, bps_max, bps_min, bps_target) ==
  IF (bps_max > kMPPMaxBps) \/ (bps_max < kMPPMinBps)
  THEN [ret |-> -1, bps_max |-> bps_max, bps_min |-> bps_min,
        bps_target |-> bps_target]
  ELSE CASE rc_mode = "CBR" ->
              CalcClamp(bps_max, CDiv(bps_max * 14, 17), CDiv(bps_max * 16, 17))
         [] rc_mode = "VBR" ->
              CalcClamp(bps_max, CDiv(bps_max * 1, 3), CDiv(bps_max * 2, 3))
         [] OTHER ->
              [ret |-> -1, bps_max |-> bps_max, bps_min |-> bps_min,
               bps_target |-> bps_target]

(* CalcMppBpsWithMax taking the fixed-QP mode, all three tiers at the       *)
(* ceiling.                                                                *)
CalcMppBpsWithMax_FixQp(rc_mode, bps_max, bps_min, bps_target) ==
  IF (bps_max > kMPPMaxBps) \/ (bps_max < kMPPMinBps)
  THEN [ret |-> -1, bps_max |-> bps_max, bps_min |-> bps_min,
        bps_target |-> bps_target]
  ELSE CASE rc_mode = "CBR" ->
              CalcClamp(bps_max, CDiv(bps_max * 15, 17), CDiv(bps_max * 16, 17))
         [] rc_mode = "VBR" ->
              CalcClamp(bps_max, CDiv(bps_max * 1, 3), CDiv(bps_max * 2, 3))
         [] rc_mode = "FIXQP" ->
              CalcClamp(bps_max, bps_min, bps_target)
         [] OTHER ->
              [ret |-> -1, bps_max |-> bps_max, bps_min |-> bps_min,
               bps_target |-> bps_target]

CalcMppBpsWithMax(rc_mode, bps_max, bps_min, bps_target) ==
  IF (bps_max > kMPPMaxBps) \/ (bps_max < kMPPMinBps)
  THEN [ret |-> -1, bps_max |-> bps_max, bps_min |-> bps_min,
        bps_target |-> bps_target]
  ELSE CASE rc_mode = "CBR" ->
              CalcClamp(bps_max, CDiv(bps_max * 15, 17), CDiv(bps_max * 16, 17))
         [] rc_mode = "VBR" ->
              CalcClamp(bps_max, CDiv(bps_max * 1, 3), CDiv(bps_max * 2, 3))
         [] OTHER ->
              [ret |-> -1, bps_max |-> bps_max, bps_min |-> bps_min,
               bps_target |-> bps_target]

NoCalc == [called |-> FALSE, rc_mode |-> "BUTT", arg |-> 0, ret |-> 0,
           bps_max |-> 0, bps_min |-> 0, bps_target |-> 0]

(* A call as the three call sites make it: min and target start as max.   *)
CalcCall(rc_mode, bps) ==
  LET r == CalcMppBpsWithMax(rc_mode, bps, bps, bps)
  IN  [called |-> TRUE, rc_mode |-> rc_mode, arg |-> bps, ret |-> r.ret,
       bps_max |-> r.bps_max, bps_min |-> r.bps_min,
       bps_target |-> r.bps_target]

CalcCeilings ==
  {-1, 0, 1}
    \cup ((kMPPMinBps - MaxOff) .. (kMPPMinBps + LowSpan))
    \cup ((kMPPMaxBps - MaxOff) .. (kMPPMaxBps + MaxOff))
    \cup {kMPPMinBps + i * GridStep : i \in 1 .. GridN}

----------------------------------------------------------------------------
(* Data model.                                                             *)

CodingTypes == {"MJPEG", "AVC", "HEVC", "Unused"}

(* MppCodingType as written to "codec:type".                               *)
CodingValue(t) ==
  CASE t = "AVC" -> 7 [] t = "MJPEG" -> 8 [] t = "HEVC" -> 16777220
    [] OTHER -> 0

(* MppEncRcMode as written to "rc:mode".                                   *)
RcModeValue(m) ==
  CASE m = "VBR" -> 0 [] m = "CBR" -> 1 [] m = "FIXQP" -> 2 [] OTHER -> 4

(* GetMPPRCMode: a rate-control name (or NULL) to MppEncRcMode.            *)
GetMPPRCMode(name) ==
  CASE name = "vbr" -> "VBR" [] name = "cbr" -> "CBR"
    [] name = "fixqp" -> "FIXQP" [] OTHER -> "BUTT"

(* ConvertToMppPixFmt: -1 for a pixel format MPP cannot take.              *)
MPP_FMT_YUV420SP == 0
MPP_FMT_YUV422_YUYV == 8
MPP_FMT_YUV422_UYVY == 10
ConvertToMppPixFmt(pix_fmt) ==
  CASE pix_fmt = "NV12" -> MPP_FMT_YUV420SP
    [] pix_fmt = "YUYV422" -> MPP_FMT_YUV422_YUYV
    [] pix_fmt = "UYVY422" -> MPP_FMT_YUV422_UYVY
    [] OTHER -> -1

(* VALUE_SCOPE_CHECK(X, MIN, MAX) passes iff this holds; otherwise the     *)
(* enclosing function returns false.                                       *)
InScope(x, lo, hi) == (x >= lo) /\ (x <= hi)
VALUE_MIN(a, b) == IF a < b THEN a ELSE b

(* Keys of the hardware configuration object.                              *)
PrepKeys == {"prep:width", "prep:height", "prep:hor_stride",
             "prep:ver_stride", "prep:format", "prep:range"}
RcKeys == {"rc:mode", "rc:bps_min", "rc:bps_max", "rc:bps_target",
           "rc:fps_in_flex", "rc:fps_in_num", "rc:fps_in_denorm",
           "rc:fps_out_flex", "rc:fps_out_num", "rc:fps_out_denorm", "rc:gop"}
H264Keys == {"h264:profile", "h264:level", "h264:cabac_en", "h264:cabac_idc",
             "h264:trans8x8", "h264:qp_init", "h264:qp_max", "h264:qp_min",
             "h264:qp_step", "h264:qp_max_i", "h264:qp_min_i"}
H265Keys == {"h265:qp_init", "h265:qp_max", "h265:qp_min", "h265:qp_step",
             "h265:qp_max_i", "h265:qp_min_i"}

(* The six quantization keys of a codec family.                            *)
QpKey(code_type) ==
  IF code_type = "AVC"
  THEN [qp_init |-> "h264:qp_init", qp_max |-> "h264:qp_max",
        qp_min |-> "h264:qp_min", qp_step |-> "h264:qp_step",
        max_i_qp |-> "h264:qp_max_i", min_i_qp |-> "h264:qp_min_i"]
  ELSE [qp_init |-> "h265:qp_init", qp_max |-> "h265:qp_max",
        qp_min |-> "h265:qp_min", qp_step |-> "h265:qp_step",
        max_i_qp |-> "h265:qp_max_i", min_i_qp |-> "h265:qp_min_i"]

(* The fields of the configuration object this code can write for a       *)
(* coding type; only these are tracked.                                    *)
KeysFor(t) ==
  CASE t = "MJPEG" -> PrepKeys \cup {"jpeg:quant"}
    [] t = "AVC" -> PrepKeys \cup RcKeys \cup H264Keys
                      \cup {"codec:type", "split:mode", "split:arg"}
    [] t = "HEVC" -> PrepKeys \cup RcKeys \cup H265Keys
                       \cup {"codec:type", "split:mode", "split:arg"}
    [] OTHER -> {}

(* mpp_enc_cfg_init leaves every field at its default.                     *)
ZeroObj(t) == [k \in KeysFor(t) |-> 0]

(* mpp_enc_cfg_set_s32/u32 over a group of keys: `writes` maps the keys    *)
(* submitted to their values, `fail` is the set of keys the library        *)
(* rejects. The return codes are OR-ed, so every key is attempted.         *)
SetS32(obj, writes, fail) ==
  [k \in DOMAIN obj |->
     IF k \in DOMAIN writes /\ k \notin fail THEN writes[k] ELSE obj[k]]
SetRet(writes, fail) == IF (DOMAIN writes) \cap fail = {} THEN 0 ELSE 1

(* MediaConfig: vid_cfg and img_cfg share storage (a union), so the image  *)
(* part is one set of fields.                                              *)

ZeroConfig ==
  [type |-> "None", pix_fmt |-> "unset", width |-> 0, height |-> 0,
   vir_width |-> 0, vir_height |-> 0, qp_init |-> 0, codec_type |-> "unset",
   frame_rate |-> 0, gop_size |-> 0, qp_min |-> 0, qp_max |-> 0,
   qp_step |-> 0, max_i_qp |-> 0, min_i_qp |-> 0, bit_rate |-> 0,
   rc_mode |-> "NULL", profile |-> 0, level |-> 0, trans_8x8 |-> 0]

(* The control channel: queue timeout modes, the configuration last        *)
(* applied by MPP_ENC_SET_CFG, the header mode.                            *)
ZeroHw(t) == [out_block |-> FALSE, in_block |-> FALSE,
              applied |-> ZeroObj(t), header_each_idr |-> FALSE]

----------------------------------------------------------------------------
(* What one strategy call did: its return value, which kind of return      *)
(* statement ended it, the control commands it issued (the rejected one    *)
(* included), the keys it submitted, the region count handed to            *)
(* RoiUpdateRegions (-1: not called), its CalcMppBpsWithMax call, and the  *)
(* configuration object, channel state and cached MediaConfig it leaves.   *)
Outcome(ret, why, cmds, sets, roi, clc, obj, h, c) ==
  [ret |-> ret, why |-> why, cmds |-> cmds, sets |-> sets, roi |-> roi,
   calc |-> clc, obj |-> obj, hw |-> h, config |-> c]

Reject(why, clc) ==
  Outcome(FALSE, why, <<>>, {}, -1, clc, cfgobj, hw, config)

(* InitConfig runs in the step that constructs the strategy, so the       *)
(* handle the constructor produced is passed in as `enc`.                  *)

(* ------------------------ MPPMJPEGConfig ------------------------------ *)

(* MPPMJPEGConfig::InitConfig going on when the input queue could not be  *)
(* set to blocking mode.                                                   *)
MJPEG_InitConfig_InputUnchecked(enc, cfg, failKeys, failCmd) ==
  LET pic_type == ConvertToMppPixFmt(cfg.pix_fmt)
      line_size == IF pic_type = MPP_FMT_YUV422_YUYV
                      \/ pic_type = MPP_FMT_YUV422_UYVY
                   THEN cfg.vir_width * 2 ELSE cfg.vir_width
      cached == [config EXCEPT !.pix_fmt = cfg.pix_fmt, !.width = cfg.width,
                               !.height = cfg.height,
                               !.vir_width = cfg.vir_width,
                               !.vir_height = cfg.vir_height,
                               !.type = "Image"]
      writes == ("prep:width" :> cfg.width) @@ ("prep:height" :> cfg.height)
                  @@ ("prep:hor_stride" :> line_size)
                  @@ ("prep:ver_stride" :> cfg.vir_height)
                  @@ ("prep:format" :> pic_type)
                  @@ ("jpeg:quant" :> cfg.qp_init)
      obj1 == SetS32(cfgobj, writes, failKeys)
      hwOut == [hw EXCEPT !.out_block = TRUE]
      hwIn == [hwOut EXCEPT !.in_block = TRUE]
      c1 == <<"MPP_SET_OUTPUT_TIMEOUT">>
      c2 == <<"MPP_SET_OUTPUT_TIMEOUT", "MPP_SET_INPUT_TIMEOUT">>
      c3 == <<"MPP_SET_OUTPUT_TIMEOUT", "MPP_SET_INPUT_TIMEOUT",
              "MPP_ENC_SET_CFG">>
  IN  IF enc # "live" THEN Reject("null_cfg", NoCalc)
      ELSE IF ~InScope(cfg.qp_init, 1, 10) THEN Reject("validation", NoCalc)
      ELSE IF pic_type = -1 THEN Reject("validation", NoCalc)
      ELSE IF failCmd = "MPP_SET_OUTPUT_TIMEOUT"
        THEN Outcome(FALSE, "hardware", c1, {}, -1, NoCalc, cfgobj, hw, config)
      ELSE IF failCmd = "MPP_SET_INPUT_TIMEOUT"
        THEN Outcome(TRUE, "ok", c3, DOMAIN writes, -1, NoCalc, obj1,
                     [hwOut EXCEPT !.applied = obj1], cached)
      ELSE IF SetRet(writes, failKeys) # 0
        THEN Outcome(FALSE, "hardware", c2, DOMAIN writes, -1, NoCalc, obj1,
                     hwIn, cached)
      ELSE IF failCmd = "MPP_ENC_SET_CFG"
        THEN Outcome(FALSE, "hardware", c3, DOMAIN writes, -1, NoCalc, obj1,
                     hwIn, cached)
      ELSE Outcome(TRUE, "ok", c3, DOMAIN writes, -1, NoCalc, obj1,
                   [hwIn EXCEPT !.applied = obj1], cached)

MJPEG_InitConfig(enc, cfg, failKeys, failCmd) ==
  LET pic_type == ConvertToMppPixFmt(cfg.pix_fmt)
      line_size == IF pic_type = MPP_FMT_YUV422_YUYV
                      \/ pic_type = MPP_FMT_YUV422_UYVY
                   THEN cfg.vir_width * 2 ELSE cfg.vir_width
      cached == [config EXCEPT !.pix_fmt = cfg.pix_fmt, !.width = cfg.width,
                               !.height = cfg.height,
                               !.vir_width = cfg.vir_width,
                               !.vir_height = cfg.vir_height,
                               !.type = "Image"]
      writes == ("prep:width" :> cfg.width) @@ ("prep:height" :> cfg.height)
                  @@ ("prep:hor_stride" :> line_size)
                  @@ ("prep:ver_stride" :> cfg.vir_height)
                  @@ ("prep:format" :> pic_type)
                  @@ ("jpeg:quant" :> cfg.qp_init)
      obj1 == SetS32(cfgobj, writes, failKeys)
      hwOut == [hw EXCEPT !.out_block = TRUE]
      hwIn == [hwOut EXCEPT !.in_block = TRUE]
      c1 == <<"MPP_SET_OUTPUT_TIMEOUT">>
      c2 == <<"MPP_SET_OUTPUT_TIMEOUT", "MPP_SET_INPUT_TIMEOUT">>
      c3 == <<"MPP_SET_OUTPUT_TIMEOUT", "MPP_SET_INPUT_TIMEOUT",
              "MPP_ENC_SET_CFG">>
  IN  IF enc # "live" THEN Reject("null_cfg", NoCalc)
      ELSE IF ~InScope(cfg.qp_init, 1, 10) THEN Reject("validation", NoCalc)
      ELSE IF pic_type = -1 THEN Reject("validation", NoCalc)
      ELSE IF failCmd = "MPP_SET_OUTPUT_TIMEOUT"
        THEN Outcome(FALSE, "hardware", c1, {}, -1, NoCalc, cfgobj, hw, config)
      ELSE IF failCmd = "MPP_SET_INPUT_TIMEOUT"
        THEN Outcome(FALSE, "hardware", c2, {}, -1, NoCalc, cfgobj, hwOut,
                     config)
      ELSE IF SetRet(writes, failKeys) # 0
        THEN Outcome(FALSE, "hardware", c2, DOMAIN writes, -1, NoCalc, obj1,
                     hwIn, cached)
      ELSE IF failCmd = "MPP_ENC_SET_CFG"
        THEN Outcome(FALSE, "hardware", c3, DOMAIN writes, -1, NoCalc, obj1,
                     hwIn, cached)
      ELSE Outcome(TRUE, "ok", c3, DOMAIN writes, -1, NoCalc, obj1,
                   [hwIn EXCEPT !.applied = obj1], cached)

(* ------------------------ MPPCommonConfig ----------------------------- *)

(* The range checks without the upper limit of the quantizer step.         *)
CommonParamCheck_NoStep(cfg) ==
  /\ InScope(cfg.frame_rate, 1, 60)
  /\ InScope(cfg.gop_size, 0, 2147483647)
  /\ InScope(cfg.qp_max, 8, 51)
  /\ InScope(cfg.qp_min, 1, VALUE_MIN(cfg.qp_max, 48))
  /\ InScope(cfg.qp_init, cfg.qp_min, cfg.qp_max)
  /\ cfg.qp_step >= 0
  /\ InScope(cfg.vir_width, 1, 8192)
  /\ InScope(cfg.vir_height, 1, 8192)
  /\ InScope(cfg.width, 1, cfg.vir_width)
  /\ InScope(cfg.height, 1, cfg.vir_height)
  /\ ((cfg.max_i_qp > 0) \/ (cfg.min_i_qp > 0)) =>
       /\ InScope(cfg.max_i_qp, 8, 51)
       /\ InScope(cfg.min_i_qp, 1, VALUE_MIN(cfg.max_i_qp, 48))

(* The range checks with the maximum quantizer allowed up to 52.           *)
CommonParamCheck_QpMax52(cfg) ==
  /\ InScope(cfg.frame_rate, 1, 60)
  /\ InScope(cfg.gop_size, 0, 2147483647)
  /\ InScope(cfg.qp_max, 8, 52)
  /\ InScope(cfg.qp_min, 1, VALUE_MIN(cfg.qp_max, 48))
  /\ InScope(cfg.qp_init, cfg.qp_min, cfg.qp_max)
  /\ InScope(cfg.qp_step, 0, cfg.qp_max - cfg.qp_min)
  /\ InScope(cfg.vir_width, 1, 8192)
  /\ InScope(cfg.vir_height, 1, 8192)
  /\ InScope(cfg.width, 1, cfg.vir_width)
  /\ InScope(cfg.height, 1, cfg.vir_height)
  /\ ((cfg.max_i_qp > 0) \/ (cfg.min_i_qp > 0)) =>
       /\ InScope(cfg.max_i_qp, 8, 51)
       /\ InScope(cfg.min_i_qp, 1, VALUE_MIN(cfg.max_i_qp, 48))

(* The range checks at the head of MPPCommonConfig::InitConfig.            *)
CommonParamCheck(cfg) ==
  /\ InScope(cfg.frame_rate, 1, 60)
  /\ InScope(cfg.gop_size, 0, 2147483647)
  /\ InScope(cfg.qp_max, 8, 51)
  /\ InScope(cfg.qp_min, 1, VALUE_MIN(cfg.qp_max, 48))
  /\ InScope(cfg.qp_init, cfg.qp_min, cfg.qp_max)
  /\ InScope(cfg.qp_step, 0, cfg.qp_max - cfg.qp_min)
  /\ InScope(cfg.vir_width, 1, 8192)
  /\ InScope(cfg.vir_height, 1, 8192)
  /\ InScope(cfg.width, 1, cfg.vir_width)
  /\ InScope(cfg.height, 1, cfg.vir_height)
  /\ ((cfg.max_i_qp > 0) \/ (cfg.min_i_qp > 0)) =>
       /\ InScope(cfg.max_i_qp, 8, 51)
       /\ InScope(cfg.min_i_qp, 1, VALUE_MIN(cfg.max_i_qp, 48))

Max(a, b) == IF a > b THEN a ELSE b
Min(a, b) == IF a < b THEN a ELSE b

(* The codec block of InitConfig: keys written and the resolved profile.   *)
CommonProfile(code_type, cfg) ==
  IF code_type = "AVC" /\ cfg.profile # 66 /\ cfg.profile # 77
  THEN 100 ELSE cfg.profile

CommonCodecWrites(code_type, cfg, rc_mode) ==
  LET profile == CommonProfile(code_type, cfg)
      qk == QpKey(code_type)
      qpw == (qk.qp_init :> (IF rc_mode = "FIXQP" THEN -1 ELSE cfg.qp_init))
               @@ (qk.qp_max :> cfg.qp_max) @@ (qk.qp_min :> cfg.qp_min)
               @@ (qk.qp_step :> cfg.qp_step)
               @@ (qk.max_i_qp :> cfg.max_i_qp)
               @@ (qk.min_i_qp :> cfg.min_i_qp)
  IN  IF code_type = "AVC"
      THEN ("h264:profile" :> profile) @@ ("h264:level" :> cfg.level)
             @@ ("h264:cabac_en" :> (IF profile = 100 THEN 1 ELSE 0))
             @@ ("h264:cabac_idc" :> 0)
             @@ ("h264:trans8x8" :>
                   (IF cfg.trans_8x8 # 0 /\ profile = 100 THEN 1 ELSE 0))
             @@ qpw
      ELSE qpw

Common_InitConfig(enc, code_type, cfg, failKeys, failCmd) ==
  LET pic_type == ConvertToMppPixFmt(cfg.pix_fmt)
      rc_mode == GetMPPRCMode(cfg.rc_mode)
      clc == CalcCall(rc_mode, cfg.bit_rate)
      fps_in_num == Max(1, Min(cfg.frame_rate, 65535))
      line_size == IF pic_type = MPP_FMT_YUV422_YUYV
                      \/ pic_type = MPP_FMT_YUV422_UYVY
                   THEN cfg.vir_width * 2 ELSE cfg.vir_width
      writes == ("prep:width" :> cfg.width) @@ ("prep:height" :> cfg.height)
                  @@ ("prep:hor_stride" :> line_size)
                  @@ ("prep:ver_stride" :> cfg.vir_height)
                  @@ ("prep:format" :> pic_type) @@ ("prep:range" :> 1)
                  @@ ("rc:mode" :> RcModeValue(rc_mode))
                  @@ ("rc:bps_min" :> clc.bps_min)
                  @@ ("rc:bps_max" :> clc.bps_max)
                  @@ ("rc:bps_target" :> clc.bps_target)
                  @@ ("rc:fps_in_flex" :> 0)
                  @@ ("rc:fps_in_num" :> fps_in_num)
                  @@ ("rc:fps_in_denorm" :> 1)
                  @@ ("rc:fps_out_flex" :> 0)
                  @@ ("rc:fps_out_num" :> fps_in_num)
                  @@ ("rc:fps_out_denorm" :> 1)
                  @@ ("rc:gop" :> cfg.gop_size)
                  @@ ("codec:type" :> CodingValue(code_type))
                  @@ CommonCodecWrites(code_type, cfg, rc_mode)
      vconfig == [cfg EXCEPT !.frame_rate = fps_in_num,
                             !.profile = CommonProfile(code_type, cfg),
                             !.type = "Video"]
      obj1 == SetS32(cfgobj, writes, failKeys)
      hwOut == [hw EXCEPT !.out_block = TRUE]
      hwIn == [hwOut EXCEPT !.in_block = TRUE]
      hwCfg == [hwIn EXCEPT !.applied = obj1]
      c1 == <<"MPP_SET_OUTPUT_TIMEOUT">>
      c2 == <<"MPP_SET_OUTPUT_TIMEOUT", "MPP_SET_INPUT_TIMEOUT">>
      c3 == <<"MPP_SET_OUTPUT_TIMEOUT", "MPP_SET_INPUT_TIMEOUT",
              "MPP_ENC_SET_CFG">>
      c4 == <<"MPP_SET_OUTPUT_TIMEOUT", "MPP_SET_INPUT_TIMEOUT",
              "MPP_ENC_SET_CFG", "MPP_ENC_SET_HEADER_MODE">>
  IN  IF enc # "live" THEN Reject("null_cfg", NoCalc)
      ELSE IF ~CommonParamCheck(cfg) THEN Reject("validation", NoCalc)
      ELSE IF pic_type = -1 THEN Reject("validation", NoCalc)
      ELSE IF rc_mode = "BUTT" THEN Reject("validation", NoCalc)
      ELSE IF clc.ret < 0 THEN Reject("validation", clc)
      ELSE IF failCmd = "MPP_SET_OUTPUT_TIMEOUT"
        THEN Outcome(FALSE, "hardware", c1, {}, -1, clc, cfgobj, hw, config)
      ELSE IF failCmd = "MPP_SET_INPUT_TIMEOUT"
        THEN Outcome(FALSE, "hardware", c2, {}, -1, clc, cfgobj, hwOut, config)
      ELSE IF SetRet(writes, failKeys) # 0
        THEN Outcome(FALSE, "hardware", c2, DOMAIN writes, -1, clc, obj1, hwIn,
                     config)
      ELSE IF failCmd = "MPP_ENC_SET_CFG"
        THEN Outcome(FALSE, "hardware", c3, DOMAIN writes, -1, clc, obj1, hwIn,
                     config)
      ELSE IF failCmd = "MPP_ENC_SET_HEADER_MODE"
        THEN Outcome(FALSE, "hardware", c4, DOMAIN writes, -1, clc, obj1,
                     hwCfg, config)
      ELSE Outcome(TRUE, "ok", c4, DOMAIN writes, -1, clc, obj1,
                   [hwCfg EXCEPT !.header_each_idr = TRUE], vconfig)

(* ---------------------- runtime change requests ----------------------- *)

SizeofVideoEncoderQp == 24   \* six ints
SizeofEncROIRegion == 16
SizeofInt == 4

(* SubmitAndApply with the cached MediaConfig written before the keys are *)
(* submitted, so that a failure leaves the new values in the cache.        *)
SubmitAndApply_CommitOnFail(writes, committed, clc, failKeys, failCmd) ==
  LET obj1 == SetS32(cfgobj, writes, failKeys)
  IN  IF SetRet(writes, failKeys) # 0
        THEN Outcome(FALSE, "hardware", <<>>, DOMAIN writes, -1, clc, obj1, hw,
                     committed)
      ELSE IF failCmd = "MPP_ENC_SET_CFG"
        THEN Outcome(FALSE, "hardware", <<"MPP_ENC_SET_CFG">>, DOMAIN writes,
                     -1, clc, obj1, hw, committed)
      ELSE Outcome(TRUE, "ok", <<"MPP_ENC_SET_CFG">>, DOMAIN writes, -1, clc,
                   obj1, [hw EXCEPT !.applied = obj1], committed)

(* A group of keys submitted and then applied with MPP_ENC_SET_CFG; the   *)
(* cached MediaConfig becomes `committed` only when both succeed.          *)
SubmitAndApply(writes, committed, clc, failKeys, failCmd) ==
  LET obj1 == SetS32(cfgobj, writes, failKeys)
  IN  IF SetRet(writes, failKeys) # 0
        THEN Outcome(FALSE, "hardware", <<>>, DOMAIN writes, -1, clc, obj1, hw,
                     config)
      ELSE IF failCmd = "MPP_ENC_SET_CFG"
        THEN Outcome(FALSE, "hardware", <<"MPP_ENC_SET_CFG">>, DOMAIN writes,
                     -1, clc, obj1, hw, config)
      ELSE Outcome(TRUE, "ok", <<"MPP_ENC_SET_CFG">>, DOMAIN writes, -1, clc,
                   obj1, [hw EXCEPT !.applied = obj1], committed)

(* MPPMJPEGConfig::CheckConfigChange taking quant values up to 11.         *)
MJPEG_CheckConfigChange_Quant11(change, val, failKeys, failCmd) ==
  IF enc_cfg # "live" THEN Reject("null_cfg", NoCalc)
  ELSE IF "kQPChange" \in change
    THEN LET quant == val.value
         IN  IF ~InScope(quant, 1, 11) THEN Reject("validation", NoCalc)
             ELSE SubmitAndApply("jpeg:quant" :> quant,
                                 [config EXCEPT !.qp_init = quant], NoCalc,
                                 failKeys, failCmd)
  ELSE Reject("unsupported", NoCalc)

(* MPPMJPEGConfig::CheckConfigChange returning true for the other kinds.   *)
MJPEG_CheckConfigChange_AcceptsOthers(change, val, failKeys, failCmd) ==
  IF enc_cfg # "live" THEN Reject("null_cfg", NoCalc)
  ELSE IF "kQPChange" \in change
    THEN LET quant == val.value
         IN  IF ~InScope(quant, 1, 10) THEN Reject("validation", NoCalc)
             ELSE SubmitAndApply("jpeg:quant" :> quant,
                                 [config EXCEPT !.qp_init = quant], NoCalc,
                                 failKeys, failCmd)
  ELSE Outcome(TRUE, "ok", <<>>, {}, -1, NoCalc, cfgobj, hw, config)

MJPEG_CheckConfigChange(change, val, failKeys, failCmd) ==
  IF enc_cfg # "live" THEN Reject("null_cfg", NoCalc)
  ELSE IF "kQPChange" \in change
    THEN LET quant == val.value
         IN  IF ~InScope(quant, 1, 10) THEN Reject("validation", NoCalc)
             ELSE SubmitAndApply("jpeg:quant" :> quant,
                                 [config EXCEPT !.qp_init = quant], NoCalc,
                                 failKeys, failCmd)
  ELSE Reject("unsupported", NoCalc)

(* The frame-rate branch: values[0..3] are bytes.                          *)
FrameRateWrites(val) ==
  LET in_fps_num == val.fps[1]
      in_fps_den == val.fps[2]
      out_fps_num == val.fps[3]
      out_fps_den == val.fps[4]
      outw == ("rc:fps_out_num" :> out_fps_num)
                @@ ("rc:fps_out_denorm" :> out_fps_den)
  IN  IF in_fps_num # 0 /\ in_fps_den # 0
      THEN ("rc:fps_in_num" :> in_fps_num)
             @@ ("rc:fps_in_denorm" :> in_fps_num) @@ outw
      ELSE outw

(* The frame-rate branch with the output rate tested after the keys have  *)
(* been submitted.                                                         *)
FrameRateChange_SubmitFirst(val, failKeys, failCmd) ==
  IF val.size < 4 THEN Reject("validation", NoCalc)
  ELSE IF val.fps[3] = 0 \/ val.fps[4] = 0 \/ val.fps[3] > 60
    THEN Outcome(FALSE, "validation", <<>>, DOMAIN FrameRateWrites(val), -1,
                 NoCalc, SetS32(cfgobj, FrameRateWrites(val), {}), hw, config)
  ELSE SubmitAndApply(FrameRateWrites(val),
                      [config EXCEPT !.frame_rate = val.fps[3]], NoCalc,
                      failKeys, failCmd)

(* The frame-rate branch taking output rates up to 61.                     *)
FrameRateChange_Max61(val, failKeys, failCmd) ==
  IF val.size < 4 THEN Reject("validation", NoCalc)
  ELSE IF val.fps[3] = 0 \/ val.fps[4] = 0 \/ val.fps[3] > 61
    THEN Reject("validation", NoCalc)
  ELSE SubmitAndApply(FrameRateWrites(val),
                      [config EXCEPT !.frame_rate = val.fps[3]], NoCalc,
                      failKeys, failCmd)

FrameRateChange(val, failKeys, failCmd) ==
  IF val.size < 4 THEN Reject("validation", NoCalc)
  ELSE IF val.fps[3] = 0 \/ val.fps[4] = 0 \/ val.fps[3] > 60
    THEN Reject("validation", NoCalc)
  ELSE SubmitAndApply(FrameRateWrites(val),
                      [config EXCEPT !.frame_rate = val.fps[3]], NoCalc,
                      failKeys, failCmd)

BpsWrites(clc) ==
  ("rc:bps_min" :> clc.bps_min) @@ ("rc:bps_max" :> clc.bps_max)
    @@ ("rc:bps_target" :> clc.bps_target)

BitRateChange(val, failKeys, failCmd) ==
  LET rc_mode == GetMPPRCMode(config.rc_mode)
      clc == CalcCall(rc_mode, val.value)
  IN  IF rc_mode = "BUTT" THEN Reject("validation", NoCalc)
      ELSE IF clc.ret < 0 THEN Reject("validation", clc)
      ELSE SubmitAndApply(BpsWrites(clc),
                          [config EXCEPT !.bit_rate = clc.bps_max], clc,
                          failKeys, failCmd)

(* The rate-control-mode branch submitting the mode alone, the bitrate     *)
(* tiers left as they are.                                                 *)
RcModeChange_ModeOnly(val, failKeys, failCmd) ==
  LET rc_mode == GetMPPRCMode(val.mode)
      clc == CalcCall(rc_mode, config.bit_rate)
  IN  IF rc_mode = "BUTT" THEN Reject("validation", NoCalc)
      ELSE IF clc.ret < 0 THEN Reject("validation", clc)
      ELSE SubmitAndApply("rc:mode" :> RcModeValue(rc_mode),
                          [config EXCEPT !.rc_mode =
                              IF rc_mode = "VBR" THEN "vbr" ELSE "cbr"],
                          clc, failKeys, failCmd)

RcModeChange(val, failKeys, failCmd) ==
  LET rc_mode == GetMPPRCMode(val.mode)
      clc == CalcCall(rc_mode, config.bit_rate)
  IN  IF rc_mode = "BUTT" THEN Reject("validation", NoCalc)
      ELSE IF clc.ret < 0 THEN Reject("validation", clc)
      ELSE SubmitAndApply(("rc:mode" :> RcModeValue(rc_mode)) @@ BpsWrites(clc),
                          [config EXCEPT !.rc_mode =
                              IF rc_mode = "VBR" THEN "vbr" ELSE "cbr"],
                          clc, failKeys, failCmd)

GopChange(val, failKeys, failCmd) ==
  LET new_gop_size == val.value
  IN  IF new_gop_size < 0 THEN Reject("validation", NoCalc)
      ELSE SubmitAndApply("rc:gop" :> new_gop_size,
                          [config EXCEPT !.gop_size = new_gop_size], NoCalc,
                          failKeys, failCmd)

QPChange(code_type, val, failKeys, failCmd) ==
  LET qps == val.qp
      qk == QpKey(code_type)
  IN  IF val.size < SizeofVideoEncoderQp THEN Reject("validation", NoCalc)
      ELSE SubmitAndApply(
             (qk.qp_init :> qps.qp_init) @@ (qk.qp_max :> qps.qp_max)
               @@ (qk.qp_min :> qps.qp_min) @@ (qk.qp_step :> qps.qp_step)
               @@ (qk.max_i_qp :> qps.max_i_qp)
               @@ (qk.min_i_qp :> qps.min_i_qp),
             [config EXCEPT !.qp_init = qps.qp_init, !.qp_min = qps.qp_min,
                            !.qp_max = qps.qp_max, !.qp_step = qps.qp_step,
                            !.max_i_qp = qps.max_i_qp,
                            !.min_i_qp = qps.min_i_qp],
             NoCalc, failKeys, failCmd)

ROICfgChange(val) ==
  IF val.size # 0 /\ val.size < SizeofEncROIRegion
  THEN Reject("validation", NoCalc)
  ELSE Outcome(TRUE, "ok", <<>>, {}, val.size \div SizeofEncROIRegion, NoCalc,
               cfgobj, hw, config)

(* The forced-IDR branch applying the configuration object as well.       *)
ForceIdrFrame_WithApply(failCmd) ==
  IF failCmd = "MPP_ENC_SET_IDR_FRAME"
  THEN Outcome(FALSE, "hardware", <<"MPP_ENC_SET_IDR_FRAME">>, {}, -1, NoCalc,
               cfgobj, hw, config)
  ELSE Outcome(TRUE, "ok", <<"MPP_ENC_SET_IDR_FRAME", "MPP_ENC_SET_CFG">>, {},
               -1, NoCalc, cfgobj, [hw EXCEPT !.applied = cfgobj], config)

ForceIdrFrame(failCmd) ==
  IF failCmd = "MPP_ENC_SET_IDR_FRAME"
  THEN Outcome(FALSE, "hardware", <<"MPP_ENC_SET_IDR_FRAME">>, {}, -1, NoCalc,
               cfgobj, hw, config)
  ELSE Outcome(TRUE, "ok", <<"MPP_ENC_SET_IDR_FRAME">>, {}, -1, NoCalc,
               cfgobj, hw, config)

SplitChange(val, failKeys, failCmd) ==
  IF val.size < 2 * SizeofInt THEN Reject("validation", NoCalc)
  ELSE SubmitAndApply(("split:mode" :> val.split[1])
                        @@ ("split:arg" :> val.split[2]),
                      config, NoCalc, failKeys, failCmd)

(* The else-if chain with the GOP kind tested before the bitrate kind.     *)
Common_CheckConfigChange_GopFirst(code_type, change, val, failKeys, failCmd) ==
  IF enc_cfg # "live" THEN Reject("null_cfg", NoCalc)
  ELSE IF "kFrameRateChange" \in change
    THEN FrameRateChange(val, failKeys, failCmd)
  ELSE IF "kGopChange" \in change
    THEN GopChange(val, failKeys, failCmd)
  ELSE IF "kBitRateChange" \in change
    THEN BitRateChange(val, failKeys, failCmd)
  ELSE IF "kRcModeChange" \in change
    THEN RcModeChange(val, failKeys, failCmd)
  ELSE IF "kRcQualityChange" \in change
    THEN Outcome(TRUE, "ok", <<>>, {}, -1, NoCalc, cfgobj, hw, config)
  ELSE IF "kQPChange" \in change
    THEN QPChange(code_type, val, failKeys, failCmd)
  ELSE IF "kROICfgChange" \in change
    THEN ROICfgChange(val)
  ELSE IF "kForceIdrFrame" \in change
    THEN ForceIdrFrame(failCmd)
  ELSE IF "kSplitChange" \in change
    THEN SplitChange(val, failKeys, failCmd)
  ELSE Reject("unsupported", NoCalc)

(* The else-if chain fixes the order in which the kind bits are tested.    *)
(* Built without MPP_SUPPORT_HW_OSD: the OSD kinds fall to the last else.  *)
Common_CheckConfigChange(code_type, change, val, failKeys, failCmd) ==
  IF enc_cfg # "live" THEN Reject("null_cfg", NoCalc)
  ELSE IF "kFrameRateChange" \in change
    THEN FrameRateChange(val, failKeys, failCmd)
  ELSE IF "kBitRateChange" \in change
    THEN BitRateChange(val, failKeys, failCmd)
  ELSE IF "kRcModeChange" \in change
    THEN RcModeChange(val, failKeys, failCmd)
  ELSE IF "kRcQualityChange" \in change
    THEN Outcome(TRUE, "ok", <<>>, {}, -1, NoCalc, cfgobj, hw, config)
  ELSE IF "kGopChange" \in change
    THEN GopChange(val, failKeys, failCmd)
  ELSE IF "kQPChange" \in change
    THEN QPChange(code_type, val, failKeys, failCmd)
  ELSE IF "kROICfgChange" \in change
    THEN ROICfgChange(val)
  ELSE IF "kForceIdrFrame" \in change
    THEN ForceIdrFrame(failCmd)
  ELSE IF "kSplitChange" \in change
    THEN SplitChange(val, failKeys, failCmd)
  ELSE Reject("unsupported", NoCalc)

----------------------------------------------------------------------------
(* Inputs.                                                                 *)

BaseCfg ==
  [type |-> "None", pix_fmt |-> "NV12", width |-> 1920, height |-> 1080,
   vir_width |-> 1920, vir_height |-> 1088, qp_init |-> 10,
   codec_type |-> "unset", frame_rate |-> 30, gop_size |-> 30, qp_min |-> 8,
   qp_max |-> 48, qp_step |-> 4, max_i_qp |-> 0, min_i_qp |-> 0,
   bit_rate |-> 5000000, rc_mode |-> "cbr", profile |-> 100, level |-> 40,
   trans_8x8 |-> 1]

(* Configurations offered to InitConfig when initialization is what is     *)
(* examined: each slice varies one group of fields over its boundaries.    *)
QpSlice ==
  { [BaseCfg EXCEPT !.qp_max = mx, !.qp_min = mn, !.qp_init = qi,
                    !.qp_step = st] :
      <<mx, mn, qi, st>> \in
        UNION { UNION { {<<a, b, i, t>> :
                           i \in {b - 1, b, a, a + 1},
                           t \in {-1, 0, a - b, a - b + 1}} :
                        b \in {0, 1, 8, 48, 49, 50} } :
                a \in {7, 8, 40, 51, 52} } }
RateSlice ==
  { [BaseCfg EXCEPT !.frame_rate = f] : f \in {-1, 0, 1, 60, 61, 65536} }
    \cup { [BaseCfg EXCEPT !.gop_size = g] : g \in {-1, 0, 1, 2147483647} }
    \cup { [BaseCfg EXCEPT !.bit_rate = b, !.rc_mode = m] :
             b \in {1999, 2000, 2500, 98000000, 98000001},
             m \in {"cbr", "vbr", "fixqp", "foo", "NULL"} }
GeoSlice ==
  { [BaseCfg EXCEPT !.vir_width = vw, !.width = w, !.pix_fmt = f] :
      vw \in {0, 1, 8192, 8193}, w \in {0, 1, 8192, 8193},
      f \in {"NV12", "YUYV422"} }
    \cup { [BaseCfg EXCEPT !.vir_height = vh, !.height = h] :
             vh \in {0, 1, 8192, 8193}, h \in {0, 1, 8192, 8193} }
MiscSlice ==
  { [BaseCfg EXCEPT !.max_i_qp = mx, !.min_i_qp = mn] :
      mx \in {0, 7, 8, 51, 52}, mn \in {0, 1, 48, 49} }
    \cup { [BaseCfg EXCEPT !.pix_fmt = f] :
             f \in {"NV12", "YUYV422", "UYVY422", "none"} }
    \cup { [BaseCfg EXCEPT !.profile = pr, !.trans_8x8 = t] :
             pr \in {0, 66, 77, 100}, t \in {0, 1} }
    \cup { [BaseCfg EXCEPT !.qp_init = q] : q \in {0, 1, 10, 11} }
InitCfgs == QpSlice \cup RateSlice \cup GeoSlice \cup MiscSlice

(* Configurations offered when the whole session is examined: two valid    *)
(* ones and one for each way validation can fail.                          *)
SessionCfgs ==
  { BaseCfg,
    [BaseCfg EXCEPT !.frame_rate = 0],
    [BaseCfg EXCEPT !.qp_min = 50, !.qp_max = 40],
    [BaseCfg EXCEPT !.qp_init = 11, !.qp_max = 10],
    [BaseCfg EXCEPT !.width = 8193, !.vir_width = 8193],
    [BaseCfg EXCEPT !.pix_fmt = "none"],
    [BaseCfg EXCEPT !.rc_mode = "foo"],
    [BaseCfg EXCEPT !.rc_mode = "fixqp"],
    [BaseCfg EXCEPT !.bit_rate = 1999] }

ZeroQp == [qp_init |-> 0, qp_step |-> 0, qp_min |-> 0, qp_max |-> 0,
           min_i_qp |-> 0, max_i_qp |-> 0]

(* A change request: the kind bits and the ParameterBuffer (its scalar     *)
(* value, its size in bytes and what its pointer holds, by kind).          *)
NoReq == [change |-> {}, value |-> 0, size |-> 0, fps |-> <<0, 0, 0, 0>>,
          mode |-> "NULL", qp |-> ZeroQp, split |-> <<0, 0>>]

StatReqs ==
  { [NoReq EXCEPT !.change = {"kEnableStatistics"}, !.value = v] :
      v \in {0, 2} }
FpsReqs ==
  { [NoReq EXCEPT !.change = {"kFrameRateChange"}, !.size = 4, !.fps = f] :
      f \in {<<25, 1, 60, 1>>, <<0, 0, 60, 1>>,
             <<25, 1, 0, 1>>, <<25, 1, 60, 0>>, <<25, 1, 61, 1>>} }
    \cup { [NoReq EXCEPT !.change = {"kFrameRateChange"}, !.size = 3,
                         !.fps = <<25, 1, 60, 1>>] }
BpsReqs ==
  { [NoReq EXCEPT !.change = {"kBitRateChange"}, !.value = v] :
      v \in {1999, 2000, 98000001} }
RcReqs ==
  { [NoReq EXCEPT !.change = {"kRcModeChange"}, !.mode = m] :
      m \in {"cbr", "vbr", "fixqp", "foo"} }
GopReqs ==
  { [NoReq EXCEPT !.change = {"kGopChange"}, !.value = v] : v \in {-1, 0} }
QpRecords ==
  { [qp_init |-> 30, qp_step |-> 2, qp_min |-> 20, qp_max |-> 40,
     min_i_qp |-> 20, max_i_qp |-> 40],
    [qp_init |-> 60, qp_step |-> 10, qp_min |-> 50, qp_max |-> 40,
     min_i_qp |-> 0, max_i_qp |-> 0] }
QpReqs ==
  { [NoReq EXCEPT !.change = {"kQPChange"}, !.size = SizeofVideoEncoderQp,
                  !.qp = q, !.value = q.qp_step] : q \in QpRecords }
    \cup { [NoReq EXCEPT !.change = {"kQPChange"},
                         !.size = SizeofVideoEncoderQp - 1,
                         !.qp = q, !.value = 11] : q \in QpRecords }
    \cup { [NoReq EXCEPT !.change = {"kQPChange"}, !.size = SizeofInt,
                         !.value = v] : v \in {0, 10} }
RoiReqs ==
  { [NoReq EXCEPT !.change = {"kROICfgChange"}, !.size = n] :
      n \in { k * SizeofEncROIRegion : k \in 0 .. MaxRoi }
              \cup { k * SizeofEncROIRegion + SizeofEncROIRegion \div 2 :
                       k \in 0 .. MaxRoi } }
OtherReqs ==
  { [NoReq EXCEPT !.change = {"kForceIdrFrame"}],
    [NoReq EXCEPT !.change = {"kRcQualityChange"}, !.value = 1],
    [NoReq EXCEPT !.change = {"kSplitChange"}, !.size = 2 * SizeofInt,
                  !.split = <<1, 1024>>],
    [NoReq EXCEPT !.change = {"kSplitChange"}, !.size = 2 * SizeofInt - 1,
                  !.split = <<1, 1024>>],
    [NoReq EXCEPT !.change = {"kOSDDataChange"}, !.size = 64] }
(* Requests with more than one kind bit set.                               *)
MultiReqs ==
  { [NoReq EXCEPT !.change = {"kFrameRateChange", "kBitRateChange"},
                  !.size = 4, !.fps = <<0, 0, 60, 1>>, !.value = 2000],
    [NoReq EXCEPT !.change = {"kBitRateChange", "kGopChange"},
                  !.value = 2000],
    [NoReq EXCEPT !.change = {"kQPChange", "kGopChange"}, !.value = 5,
                  !.size = SizeofInt],
    [NoReq EXCEPT !.change = {"kEnableStatistics", "kGopChange",
                              "kForceIdrFrame"}, !.value = 60] }
Requests == StatReqs \cup FpsReqs \cup BpsReqs \cup RcReqs \cup GopReqs
              \cup QpReqs \cup RoiReqs \cup OtherReqs \cup MultiReqs

----------------------------------------------------------------------------
(* The environment of one call: whether mpp_enc_cfg_init fails, which keys *)
(* mpp_enc_cfg_set_s32 rejects, which control command EncodeControl        *)
(* rejects. A call is offered no failure, or one of these.                 *)

NoFail == [handle |-> FALSE, keys |-> {}, cmd |-> "none"]

(* Keys that may be rejected on their own (besides the whole group).       *)
RejectableKeys == {"prep:width", "rc:bps_max"}

Range(seq) == {seq[i] : i \in DOMAIN seq}

(* `clean` is the call's outcome when nothing fails: it names the keys and *)
(* commands the call uses, hence the failures that can reach it.           *)
Envs(clean) ==
  IF faults >= MaxFaults THEN {NoFail}
  ELSE {NoFail}
         \cup {[NoFail EXCEPT !.keys = {k}] :
                 k \in clean.sets \cap RejectableKeys}
         \cup {[NoFail EXCEPT !.keys = clean.sets] : x \in {1} \cap
                 {IF clean.sets = {} THEN 0 ELSE 1}}
         \cup {[NoFail EXCEPT !.cmd = c] : c \in Range(clean.cmds)}
InitEnvs(clean) ==
  IF faults >= MaxFaults THEN {NoFail}
  ELSE Envs(clean) \cup {[NoFail EXCEPT !.handle = TRUE]}

NoLast == [op |-> "none", ret |-> TRUE, why |-> "none", fwd |-> FALSE,
           cmds |-> <<>>, sets |-> {}, roi |-> -1, cfg |-> ZeroConfig,
           req |-> NoReq]

Trace(op, out, fwd, cfg, req) ==
  [op |-> op, ret |-> out.ret, why |-> out.why, fwd |-> fwd,
   cmds |-> out.cmds, sets |-> out.sets, roi |-> out.roi, cfg |-> cfg,
   req |-> req]

(* A call ended by a failed assert(): the process aborts and the call      *)
(* returns nothing. CheckConfigChange has tested the kind bits by then     *)
(* (`req` is kept); InitConfig asserts before it reads its argument.       *)
Abort(op, req) ==
  /\ proc' = "aborted"
  /\ last' = [NoLast EXCEPT !.op = op, !.ret = FALSE, !.why = "assert",
                            !.req = req]
  /\ calc' = NoCalc
  /\ UNCHANGED <<coding_type, mpp_config, enc_cfg, cfgobj, hw, config,
                 statistics, faults, configured>>

(* A strategy call's outcome written back to the session.                  *)
Commit(op, out, cfg, req) ==
  /\ cfgobj' = out.obj
  /\ hw' = out.hw
  /\ config' = out.config
  /\ calc' = out.calc
  /\ last' = Trace(op, out, TRUE, cfg, req)

(* ------------------------ MPPFinalEncoder ----------------------------- *)

Init ==
  /\ coding_type \in CodingTypes
  /\ mpp_config = "null"
  /\ enc_cfg = "none"
  /\ cfgobj = ZeroObj(coding_type)
  /\ hw = ZeroHw(coding_type)
  /\ config = ZeroConfig
  /\ statistics = FALSE
  /\ proc = "running"
  /\ last = NoLast
  /\ calc = NoCalc
  /\ faults = 0
  /\ configured = FALSE

StrategyFor(t) == IF t = "MJPEG" THEN "mjpeg" ELSE "common"

StrategyInit(enc, cfg, env) ==
  IF coding_type = "MJPEG"
  THEN MJPEG_InitConfig(enc, cfg, env.keys, env.cmd)
  ELSE Common_InitConfig(enc, coding_type, cfg, env.keys, env.cmd)

(* assert(!mpp_config) at the head of MPPFinalEncoder::InitConfig.        *)
InitAssert_Off == TRUE
InitAssert == mpp_config = "null"

(* MPPFinalEncoder::InitConfig, with MPPConfig::MPPConfig.                 *)
InitConfig(cfg) ==
  /\ proc = "running"
  /\ last.op = "none"
  /\ IF ~InitAssert
       THEN Abort("init", NoReq)
     ELSE IF coding_type \notin {"MJPEG", "AVC", "HEVC"}
       THEN /\ last' = [NoLast EXCEPT !.op = "init", !.ret = FALSE,
                                      !.why = "unsupported_codec",
                                      !.cfg = cfg]
            /\ calc' = NoCalc
            /\ UNCHANGED <<coding_type, mpp_config, enc_cfg, cfgobj, hw,
                           config, statistics, proc, faults, configured>>
     ELSE LET new_cfg == [cfg EXCEPT !.codec_type = coding_type]
          IN  \E env \in InitEnvs(StrategyInit("live", new_cfg, NoFail)) :
                LET enc == IF env.handle THEN "null" ELSE "live"
                    out == StrategyInit(enc, new_cfg, env)
                IN  /\ mpp_config' = StrategyFor(coding_type)
                    /\ enc_cfg' = enc
                    /\ Commit("init", out, cfg, NoReq)
                    /\ faults' = IF env = NoFail THEN faults ELSE faults + 1
                    /\ configured' = (configured \/ out.ret)
                    /\ UNCHANGED <<coding_type, statistics, proc>>

StrategyChange(req, env) ==
  IF mpp_config = "mjpeg"
  THEN MJPEG_CheckConfigChange(req.change, req, env.keys, env.cmd)
  ELSE Common_CheckConfigChange(coding_type, req.change, req, env.keys,
                                env.cmd)

(* The value handed to set_statistics_switch.                              *)
StatisticsSwitch_AlwaysOn(req) == TRUE
StatisticsSwitch(req) == req.value # 0

(* MPPFinalEncoder::CheckConfigChange.                                     *)
CheckConfigChange(req) ==
  /\ proc = "running"
  /\ last.op = "none"
  /\ IF "kEnableStatistics" \in req.change
       THEN /\ statistics' = StatisticsSwitch(req)
            /\ last' = [NoLast EXCEPT !.op = "change", !.ret = TRUE,
                                      !.why = "ok", !.req = req]
            /\ calc' = NoCalc
            /\ UNCHANGED <<coding_type, mpp_config, enc_cfg, cfgobj, hw,
                           config, proc, faults, configured>>
     ELSE IF mpp_config = "null"
       THEN Abort("change", req)
     ELSE \E env \in Envs(StrategyChange(req, NoFail)) :
            LET out == StrategyChange(req, env)
            IN  /\ Commit("change", out, ZeroConfig, req)
                /\ faults' = IF env = NoFail THEN faults ELSE faults + 1
                /\ UNCHANGED <<coding_type, mpp_config, enc_cfg, statistics,
                               proc, configured>>

(* The destructor without the deinit of a live handle.                    *)
Destroy_NoDeinit ==
  /\ proc = "running"
  /\ last.op = "none"
  /\ proc' = "destroyed"
  /\ last' = [NoLast EXCEPT !.op = "destroy"]
  /\ calc' = NoCalc
  /\ UNCHANGED <<coding_type, mpp_config, enc_cfg, cfgobj, hw, config,
                 statistics, faults, configured>>

(* MPPFinalEncoder::~MPPFinalEncoder, with MPPConfig::~MPPConfig.          *)
Destroy ==
  /\ proc = "running"
  /\ last.op = "none"
  /\ proc' = "destroyed"
  /\ enc_cfg' = IF mpp_config # "null" /\ enc_cfg = "live"
                THEN "freed" ELSE enc_cfg
  /\ last' = [NoLast EXCEPT !.op = "destroy"]
  /\ calc' = NoCalc
  /\ UNCHANGED <<coding_type, mpp_config, cfgobj, hw, config, statistics,
                 faults, configured>>

(* The caller takes the result of the call that has returned: the calls   *)
(* of a session are sequential, and the trace of a call lasts until the    *)
(* caller goes on.                                                         *)
Return ==
  /\ proc = "running"
  /\ last.op # "none"
  /\ last' = NoLast
  /\ calc' = NoCalc
  /\ UNCHANGED <<coding_type, mpp_config, enc_cfg, cfgobj, hw, config,
                 statistics, proc, faults, configured>>

Next ==
  \/ \E cfg \in SessionCfgs : InitConfig(cfg)
  \/ \E req \in Requests : CheckConfigChange(req)
  \/ Destroy
  \/ Return

Spec == Init /\ [][Next]_vars

----------------------------------------------------------------------------
(* The bitrate derivation on its own: every sampled ceiling with every     *)
(* mode, then the call.                                                    *)

InitCalc ==
  /\ coding_type = "AVC"
  /\ mpp_config = "null"
  /\ enc_cfg = "none"
  /\ cfgobj = ZeroObj(coding_type)
  /\ hw = ZeroHw(coding_type)
  /\ config = ZeroConfig
  /\ statistics = FALSE
  /\ proc = "running"
  /\ last = NoLast
  /\ faults = 0
  /\ configured = FALSE
  /\ calc \in {[NoCalc EXCEPT !.rc_mode = m, !.arg = c] :
                 m \in RcModes, c \in CalcCeilings}

CalcStep ==
  /\ ~calc.called
  /\ calc' = CalcCall(calc.rc_mode, calc.arg)
  /\ UNCHANGED <<coding_type, mpp_config, enc_cfg, cfgobj, hw, config,
                 statistics, proc, last, faults, configured>>

NextCalc == CalcStep

SpecCalc == InitCalc /\ [][NextCalc]_vars

(* Initialization on its own, over the wide set of configurations. Before  *)
(* InitConfig only a statistics request leaves the session running, and    *)
(* after it a further InitConfig ends the same way whatever changes came   *)
(* in between, so these requests are all that reaches an InitConfig call.  *)
InitPhaseReqs == StatReqs \cup {[NoReq EXCEPT !.change = {"kForceIdrFrame"}]}

NextInit ==
  \/ \E cfg \in InitCfgs : InitConfig(cfg)
  \/ \E req \in InitPhaseReqs : CheckConfigChange(req)
  \/ Destroy
  \/ Return

SpecInit == Init /\ [][NextInit]_vars

(* Requests with several kind bits on their own. The kinds a request can   *)
(* carry, and a buffer filled for each way of reading it: the good one     *)
(* passes every branch's check but the bitrate range (its scalar is a      *)
(* quantization and GOP value), the bad one fails every check there is.    *)
ChangeKinds ==
  {"kEnableStatistics", "kFrameRateChange", "kBitRateChange",
   "kRcModeChange", "kRcQualityChange", "kGopChange", "kQPChange",
   "kROICfgChange", "kForceIdrFrame", "kSplitChange", "kOSDDataChange"}

GoodPayload ==
  [NoReq EXCEPT !.value = 5, !.size = SizeofVideoEncoderQp,
                !.fps = <<25, 1, 60, 1>>, !.mode = "vbr",
                !.qp = [qp_init |-> 30, qp_step |-> 2, qp_min |-> 20,
                        qp_max |-> 40, min_i_qp |-> 20, max_i_qp |-> 40],
                !.split = <<1, 1024>>]
BadPayload ==
  [NoReq EXCEPT !.value = -1, !.size = 1, !.fps = <<25, 1, 0, 1>>,
                !.mode = "fixqp"]

(* Every pair of kinds with the good buffer, every pair of neighbours in   *)
(* the order of the tests with the bad one, a bitrate payload that the     *)
(* video strategy takes, and all the kinds at once.                        *)
MultiKindReqs ==
  { [GoodPayload EXCEPT !.change = ab] :
      ab \in {x \in SUBSET ChangeKinds : Cardinality(x) = 2} }
    \cup { [BadPayload EXCEPT !.change = {a, b}] :
             <<a, b>> \in
               {<<"kFrameRateChange", "kBitRateChange">>,
                <<"kBitRateChange", "kRcModeChange">>,
                <<"kRcModeChange", "kRcQualityChange">>,
                <<"kGopChange", "kQPChange">>,
                <<"kQPChange", "kROICfgChange">>,
                <<"kROICfgChange", "kForceIdrFrame">>,
                <<"kSplitChange", "kOSDDataChange">>} }
    \cup { [GoodPayload EXCEPT !.change = {"kBitRateChange", "kGopChange"},
                               !.value = 2000],
           [GoodPayload EXCEPT !.change = ChangeKinds],
           [GoodPayload EXCEPT !.change = ChangeKinds \ {"kEnableStatistics"}] }

NextMulti ==
  \/ InitConfig(BaseCfg)
  \/ \E req \in MultiKindReqs : CheckConfigChange(req)
  \/ Destroy
  \/ Return

SpecMulti == Init /\ [][NextMulti]_vars

----------------------------------------------------------------------------
(* Claims.                                                                 *)

(* C1: for every ceiling c in [2000, 98000000] and mode constant or        *)
(* variable, CalcMppBpsWithMax succeeds and returns                        *)
(* min <= target <= max, max = c and min >= 2000.                          *)
C1_TiersOrdered ==
  (/\ calc.called
   /\ calc.arg >= 2000 /\ calc.arg <= 98000000
   /\ calc.rc_mode \in {"CBR", "VBR"})
    => /\ calc.ret = 0
       /\ calc.bps_min <= calc.bps_target
       /\ calc.bps_target <= calc.bps_max
       /\ calc.bps_max = calc.arg
       /\ calc.bps_min >= 2000

(* A variable-rate ceiling low enough that the minimum is clamped and the  *)
(* target recentred.                                                       *)
C1_Witness ==
  /\ calc.called /\ calc.rc_mode = "VBR" /\ calc.arg = 2500
  /\ calc.ret = 0 /\ calc.bps_min = 2000 /\ calc.bps_target = 2250

(* The derivation as the specification words it.                           *)
RefDerive(c, mode) ==
  IF c < 2000 \/ c > 98000000 THEN [fail |-> TRUE, max |-> 0, min |-> 0,
                                    target |-> 0]
  ELSE IF mode \notin {"CBR", "VBR"} THEN [fail |-> TRUE, max |-> 0,
                                           min |-> 0, target |-> 0]
  ELSE LET t0 == IF mode = "CBR" THEN (c * 16) \div 17 ELSE (c * 2) \div 3
           m0 == IF mode = "CBR" THEN (c * 15) \div 17 ELSE c \div 3
           m1 == IF m0 < 2000 THEN 2000 ELSE m0
           t1 == IF t0 < m1 THEN (m1 + c) \div 2 ELSE t0
       IN  [fail |-> FALSE, max |-> c, min |-> m1, target |-> t1]

(* C2: CalcMppBpsWithMax equals the reference function on every input:     *)
(* it fails exactly when the reference fails, and otherwise returns the    *)
(* reference's (max, min, target).                                         *)
C2_MatchesReference ==
  calc.called =>
    LET r == RefDerive(calc.arg, calc.rc_mode)
    IN  /\ r.fail <=> (calc.ret < 0)
        /\ ~r.fail => /\ calc.ret = 0
                      /\ calc.bps_max = r.max
                      /\ calc.bps_min = r.min
                      /\ calc.bps_target = r.target

(* A constant-rate ceiling at the upper limit, and a failure by mode with  *)
(* an in-range ceiling, have both been computed.                           *)
C2_Witness ==
  /\ calc.called /\ calc.rc_mode = "CBR" /\ calc.arg = 98000000
  /\ calc.ret = 0 /\ calc.bps_min = 86470588 /\ calc.bps_target = 92235294

(* A call of the named operation is made in this step.                     *)
Calls(op) == last.op = "none" /\ last'.op = op

(* C3: whenever CheckConfigChange returns failure, for either strategy and *)
(* every change kind, the cached MediaConfig is what it was before the     *)
(* call.                                                                   *)
C3_FailedChangeKeepsConfig ==
  [][(Calls("change") /\ ~last'.ret) => config' = config]_vars

(* A video change whose keys were submitted and whose apply command was    *)
(* rejected: the configuration object already differs from what the        *)
(* channel runs, and the call has returned failure.                        *)
C3_Witness ==
  /\ last.op = "change" /\ ~last.ret /\ last.why = "hardware"
  /\ last.fwd /\ mpp_config = "common" /\ config.type = "Video"
  /\ last.req.change = {"kGopChange"} /\ last.req.value # config.gop_size
  /\ last.cmds = <<"MPP_ENC_SET_CFG">>
  /\ cfgobj # hw.applied

(* C4: whenever InitConfig returns failure, at whichever step, the cached  *)
(* MediaConfig and its kind discriminant are what they were before the     *)
(* call.                                                                   *)
C4_FailedInitKeepsConfig ==
  [][(Calls("init") /\ ~last'.ret) => config' = config]_vars

(* C5: a call of InitConfig or CheckConfigChange that fails without any    *)
(* library or channel failure (so on a check of its own) has issued no     *)
(* control command, submitted no key, and left the configuration object    *)
(* and the channel as they were.                                           *)
C5_ValidationBeforeSubmission ==
  [][((Calls("init") \/ Calls("change")) /\ ~last'.ret /\ faults' = faults)
       => /\ last'.cmds = <<>>
          /\ last'.sets = {}
          /\ last'.roi = -1
          /\ cfgobj' = cfgobj
          /\ hw' = hw]_vars

(* A bitrate change on a configured video session rejected by the bitrate  *)
(* derivation.                                                             *)
C5_Witness ==
  /\ last.op = "change" /\ ~last.ret /\ last.why = "validation"
  /\ last.fwd /\ configured /\ config.type = "Video"
  /\ last.req.change = {"kBitRateChange"}
  /\ calc.called /\ calc.ret < 0
  /\ last.cmds = <<>> /\ last.sets = {}
  /\ cfgobj = hw.applied

(* C6: the controller holds a strategy only if some InitConfig call has    *)
(* returned success.                                                       *)
C6_StrategyOnlyWhenConfigured ==
  mpp_config # "null" => configured

(* C7: once InitConfig has succeeded, every later InitConfig call ends in  *)
(* the assertion fault: it returns nothing, replaces no strategy or        *)
(* handle, issues no command and leaves the cached MediaConfig, the        *)
(* configuration object and the channel as they were.                      *)
C7_SecondInitAsserts ==
  [][(Calls("init") /\ configured)
       => /\ proc' = "aborted"
          /\ last'.why = "assert" /\ ~last'.ret /\ ~last'.fwd
          /\ last'.cmds = <<>> /\ last'.sets = {}
          /\ mpp_config' = mpp_config /\ enc_cfg' = enc_cfg
          /\ config' = config /\ cfgobj' = cfgobj /\ hw' = hw]_vars

(* A configured video session aborted by a second InitConfig.              *)
C7_Witness ==
  /\ proc = "aborted" /\ last.op = "init" /\ last.why = "assert"
  /\ configured /\ mpp_config = "common" /\ config.type = "Video"

(* C8: a change request with the statistics bit set, in every session      *)
(* state and whatever other bits are set, returns success, sets the        *)
(* statistics flag to the truth value of the payload, is not forwarded to  *)
(* the strategy, issues no command and changes neither the cached          *)
(* MediaConfig nor the configuration object nor the channel.               *)
C8_StatisticsIntercepted ==
  [][(Calls("change") /\ "kEnableStatistics" \in last'.req.change)
       => /\ last'.ret /\ last'.why = "ok"
          /\ statistics' = (last'.req.value # 0)
          /\ ~last'.fwd
          /\ last'.cmds = <<>> /\ last'.sets = {}
          /\ proc' = proc
          /\ mpp_config' = mpp_config
          /\ config' = config /\ cfgobj' = cfgobj /\ hw' = hw]_vars

(* Statistics switched on by a request that also carries the GOP and      *)
(* forced-IDR bits, on a session that has no strategy yet.                 *)
C8_Witness ==
  /\ last.op = "change" /\ last.ret
  /\ last.req.change = {"kEnableStatistics", "kGopChange", "kForceIdrFrame"}
  /\ last.req.value = 60 /\ statistics
  /\ mpp_config = "null" /\ proc = "running" /\ hw = ZeroHw(coding_type)

(* The configurations C9 names.                                            *)
C9_BadVideoConfig(c) ==
  \/ c.frame_rate < 1 \/ c.frame_rate > 60
  \/ c.qp_min > c.qp_max
  \/ c.qp_init < c.qp_min \/ c.qp_init > c.qp_max
  \/ c.qp_step > c.qp_max - c.qp_min

(* C9: video InitConfig returns failure whenever frame_rate is outside     *)
(* [1,60], or qp_min > qp_max, or qp_init is outside [qp_min, qp_max], or  *)
(* qp_step > qp_max - qp_min.                                              *)
C9_BadVideoConfigRejected ==
  (/\ last.op = "init" /\ last.fwd
   /\ coding_type \in {"AVC", "HEVC"}
   /\ C9_BadVideoConfig(last.cfg))
    => (~last.ret /\ ~configured /\ config.type # "Video")

(* The configuration qp_min = 50, qp_max = 40 handed to an AVC session.    *)
C9_Witness ==
  /\ last.op = "init" /\ last.fwd /\ coding_type = "AVC"
  /\ last.cfg.qp_min = 50 /\ last.cfg.qp_max = 40
  /\ last.cfg.frame_rate = 30
  /\ ~last.ret /\ last.why = "validation"

(* C10 as stated: after a successful video InitConfig the cached           *)
(* VideoConfig has 8 <= qp_min <= qp_max <= 51.                            *)
C10_QpWithin8To51 ==
  (last.op = "init" /\ last.ret /\ config.type = "Video")
    => (8 <= config.qp_min /\ config.qp_min <= config.qp_max
        /\ config.qp_max <= 51)

(* C10 as the code has it: after a successful video InitConfig the cached  *)
(* VideoConfig has 1 <= qp_min <= min(qp_max, 48) and 8 <= qp_max <= 51.   *)
C10_QpBoundsAfterInit ==
  (last.op = "init" /\ last.ret /\ config.type = "Video")
    => /\ 1 <= config.qp_min
       /\ config.qp_min <= config.qp_max
       /\ config.qp_min <= 48
       /\ 8 <= config.qp_max
       /\ config.qp_max <= 51

(* A video session configured with a minimum quantizer below 8.            *)
C10_Witness ==
  /\ last.op = "init" /\ last.ret /\ config.type = "Video"
  /\ coding_type \in {"AVC", "HEVC"}
  /\ config.qp_min = 1 /\ config.qp_max = 51

(* C11: after a successful InitConfig of either strategy the cached        *)
(* geometry has 1 <= width <= vir_width <= 8192 and                        *)
(* 1 <= height <= vir_height <= 8192.                                      *)
C11_GeometryValidAfterInit ==
  (last.op = "init" /\ last.ret)
    => /\ 1 <= config.width /\ config.width <= config.vir_width
       /\ config.vir_width <= 8192
       /\ 1 <= config.height /\ config.height <= config.vir_height
       /\ config.vir_height <= 8192

(* C12: in a still-image session InitConfig with qp_init outside [1,10]    *)
(* and a quantization change with a value outside [1,10] fail before any   *)
(* key is submitted or command issued, and the quantization value held in  *)
(* the configuration object and the one applied to the channel are in      *)
(* [1,10] (or still the default 0 of a field never written).               *)
C12_MjpegQuantInRange ==
  mpp_config = "mjpeg" =>
    /\ cfgobj["jpeg:quant"] \in 0 .. 10
    /\ hw.applied["jpeg:quant"] \in 0 .. 10
    /\ (last.op \in {"init", "change"} /\ last.fwd) =>
         LET q == IF last.op = "init" THEN last.cfg.qp_init
                  ELSE last.req.value
             asked == last.op = "init" \/ "kQPChange" \in last.req.change
         IN  /\ (asked /\ (q < 1 \/ q > 10))
                  => (~last.ret /\ last.sets = {} /\ last.cmds = <<>>)
             /\ "jpeg:quant" \in last.sets => (1 <= q /\ q <= 10)
             /\ (last.ret /\ asked) => (cfgobj["jpeg:quant"] = q
                                         /\ hw.applied["jpeg:quant"] = q)

(* A configured still-image session, quantization 10 applied, has just     *)
(* refused a change to 11.                                                 *)
C12_Witness ==
  /\ mpp_config = "mjpeg" /\ configured
  /\ last.op = "change" /\ last.fwd /\ "kQPChange" \in last.req.change
  /\ last.req.value = 11 /\ ~last.ret /\ last.sets = {}
  /\ hw.applied["jpeg:quant"] = 10

(* What C13 promises of a refused request: failure, no command, no key, no *)
(* region update, and cache, configuration object and channel unchanged.   *)
C13_Refused ==
  /\ ~last'.ret
  /\ last'.cmds = <<>> /\ last'.sets = {} /\ last'.roi = -1
  /\ config' = config /\ cfgobj' = cfgobj /\ hw' = hw

(* C13 as stated: in a still-image session every change request without   *)
(* the quantization kind is refused.                                       *)
C13_MjpegNonQpRefused ==
  [][(Calls("change") /\ mpp_config = "mjpeg"
        /\ "kQPChange" \notin last'.req.change) => C13_Refused]_vars

(* C13 with the statistics kind set apart: in a still-image session every  *)
(* change request with neither the quantization kind nor the statistics    *)
(* kind reaches the strategy and is refused.                               *)
C13_MjpegOnlyQuant ==
  [][(Calls("change") /\ mpp_config = "mjpeg"
        /\ "kQPChange" \notin last'.req.change
        /\ "kEnableStatistics" \notin last'.req.change)
       => (C13_Refused /\ last'.fwd)]_vars

(* A configured still-image session has refused a GOP change.              *)
C13_Witness ==
  /\ mpp_config = "mjpeg" /\ configured /\ config.type = "Image"
  /\ last.op = "change" /\ last.fwd /\ last.req.change = {"kGopChange"}
  /\ ~last.ret /\ last.why = "unsupported"

(* C14: in a configured video session the cached frame_rate stays in       *)
(* [1,60]; a frame-rate change with out-num = 0, out-den = 0 or            *)
(* out-num > 60 fails, a failed one leaves frame_rate as it was, and a     *)
(* successful one sets it to out-num.                                      *)
C14_FrameRateKept ==
  [][/\ (configured' /\ mpp_config' = "common")
          => (1 <= config'.frame_rate /\ config'.frame_rate <= 60)
     /\ (Calls("change") /\ configured /\ mpp_config = "common"
           /\ last'.fwd /\ "kFrameRateChange" \in last'.req.change)
          => LET f == last'.req.fps
             IN  /\ (f[3] = 0 \/ f[4] = 0 \/ f[3] > 60) => ~last'.ret
                 /\ ~last'.ret => config'.frame_rate = config.frame_rate
                 /\ last'.ret => config'.frame_rate = f[3]]_vars

(* A video session configured at 30 frames per second has taken a change   *)
(* to 60 and has then refused a change with out-num 0.                     *)
C14_Witness ==
  /\ configured /\ mpp_config = "common" /\ config.type = "Video"
  /\ config.frame_rate = 60
  /\ last.op = "change" /\ last.fwd
  /\ last.req.change = {"kFrameRateChange"} /\ last.req.fps[3] = 0
  /\ ~last.ret

(* C15: a successful frame-rate change with payload (in-num, in-den,       *)
(* out-num, out-den) leaves out-num and out-den in the output pair of the  *)
(* configuration object and, when in-num and in-den are both nonzero,      *)
(* in-num in the input numerator and in-den in the input denominator;      *)
(* otherwise the input pair is as it was.                                  *)
C15_FrameRateKeysAsGiven ==
  [][(Calls("change") /\ mpp_config = "common" /\ last'.fwd /\ last'.ret
        /\ "kFrameRateChange" \in last'.req.change)
       => LET f == last'.req.fps
          IN  /\ cfgobj'["rc:fps_out_num"] = f[3]
              /\ cfgobj'["rc:fps_out_denorm"] = f[4]
              /\ IF f[1] # 0 /\ f[2] # 0
                 THEN /\ cfgobj'["rc:fps_in_num"] = f[1]
                      /\ cfgobj'["rc:fps_in_denorm"] = f[2]
                 ELSE /\ cfgobj'["rc:fps_in_num"] = cfgobj["rc:fps_in_num"]
                      /\ cfgobj'["rc:fps_in_denorm"]
                           = cfgobj["rc:fps_in_denorm"]]_vars

(* The mode a rate-control name stands for in the reference derivation.    *)
C16_Mode(name) ==
  IF name = "cbr" THEN "CBR" ELSE IF name = "vbr" THEN "VBR" ELSE "none"

(* The tiers held in a configuration object are derive(c, m).              *)
C16_Tiers(obj, c, m) ==
  LET r == RefDerive(c, m)
  IN  /\ ~r.fail
      /\ obj["rc:bps_max"] = r.max
      /\ obj["rc:bps_min"] = r.min
      /\ obj["rc:bps_target"] = r.target

C17_IsForceIdr(change) ==
  /\ "kForceIdrFrame" \in change
  /\ change \cap {"kEnableStatistics", "kFrameRateChange", "kBitRateChange",
                  "kRcModeChange", "kRcQualityChange", "kGopChange",
                  "kQPChange", "kROICfgChange"} = {}

(* C17: a forced-keyframe request on a configured video session issues     *)
(* the immediate-keyframe command once and nothing else: no apply          *)
(* command, no key submitted, and the cached MediaConfig, the              *)
(* configuration object and the applied configuration unchanged, whether   *)
(* the command succeeds or fails.                                          *)
C17_ForceIdrOnly ==
  [][(Calls("change") /\ configured /\ mpp_config = "common"
        /\ C17_IsForceIdr(last'.req.change))
       => /\ last'.fwd
          /\ last'.cmds = <<"MPP_ENC_SET_IDR_FRAME">>
          /\ last'.sets = {} /\ last'.roi = -1
          /\ config' = config /\ cfgobj' = cfgobj /\ hw' = hw]_vars

(* The immediate-keyframe command was rejected on a configured video       *)
(* session.                                                                *)
C17_Witness ==
  /\ configured /\ mpp_config = "common" /\ config.type = "Video"
  /\ last.op = "change" /\ last.req.change = {"kForceIdrFrame"}
  /\ ~last.ret /\ last.why = "hardware"
  /\ last.cmds = <<"MPP_ENC_SET_IDR_FRAME">>

(* The request is one the video strategy takes as a region-of-interest     *)
(* request.                                                                *)
C18_IsRoi(change) ==
  /\ "kROICfgChange" \in change
  /\ change \cap {"kEnableStatistics", "kFrameRateChange", "kBitRateChange",
                  "kRcModeChange", "kRcQualityChange", "kGopChange",
                  "kQPChange"} = {}

(* C18: a region-of-interest change whose payload size is not a whole      *)
(* multiple of the region record size fails without RoiUpdateRegions       *)
(* being called; a size of n records calls it with count n.                *)
C18_RoiWholeRecords ==
  (/\ last.op = "change" /\ last.fwd /\ mpp_config = "common"
   /\ enc_cfg = "live" /\ C18_IsRoi(last.req.change))
    => IF last.req.size % SizeofEncROIRegion # 0
       THEN ~last.ret /\ last.roi = -1
       ELSE last.roi = last.req.size \div SizeofEncROIRegion

(* C19: the configuration handle is created at most once, by the InitConfig *)
(* call that constructs the strategy; a live handle is released by the     *)
(* destructor, once, and by nothing before it; and after the destructor    *)
(* no operation runs at all.                                               *)
C19_HandleLifetime ==
  [][/\ enc_cfg # "freed" /\ proc # "destroyed"
     /\ (Calls("init") /\ last'.fwd)
          => /\ enc_cfg = "none" /\ mpp_config = "null"
             /\ enc_cfg' \in {"live", "null"} /\ mpp_config' # "null"
     /\ (enc_cfg' # enc_cfg /\ ~Calls("init"))
          => /\ Calls("destroy")
             /\ enc_cfg = "live" /\ enc_cfg' = "freed"
     /\ Calls("destroy")
          => /\ proc' = "destroyed"
             /\ enc_cfg = "live" => enc_cfg' = "freed"
             /\ enc_cfg # "live" => enc_cfg' = enc_cfg
     /\ (enc_cfg = "live" /\ ~Calls("destroy")) => enc_cfg' = "live"]_vars

(* A session destroyed after a configured video session took a failed      *)
(* change: the handle has been released.                                   *)
C19_Witness ==
  /\ proc = "destroyed" /\ enc_cfg = "freed" /\ last.op = "destroy"
  /\ configured /\ faults > 0 /\ cfgobj # hw.applied

(* C20: in a configured video session the bitrate ceiling, GOP size and    *)
(* output frame-rate numerator last applied to the channel equal the       *)
(* cached bit_rate, gop_size and frame_rate.                               *)
C20_AppliedEqualsCached ==
  (configured /\ mpp_config = "common")
    => /\ hw.applied["rc:bps_max"] = config.bit_rate
       /\ hw.applied["rc:gop"] = config.gop_size
       /\ hw.applied["rc:fps_out_num"] = config.frame_rate

(* The order of kinds C21 gives.                                           *)
C21_Order ==
  <<"kEnableStatistics", "kFrameRateChange", "kBitRateChange",
    "kRcModeChange", "kRcQualityChange", "kGopChange", "kQPChange",
    "kROICfgChange", "kForceIdrFrame", "kSplitChange">>

(* The first kind of an order that is set in a request ("none": no kind    *)
(* of the order is set).                                                   *)
C21_First(order, change) ==
  IF \E i \in DOMAIN order : order[i] \in change
  THEN order[CHOOSE i \in DOMAIN order :
               /\ order[i] \in change
               /\ \A j \in 1 .. (i - 1) : order[j] \notin change]
  ELSE "none"

(* What belongs to a kind: the keys it submits, the commands it issues,    *)
(* the cached fields it commits.                                           *)
C21_Keys(kind) ==
  CASE kind = "kFrameRateChange" ->
         {"rc:fps_in_num", "rc:fps_in_denorm", "rc:fps_out_num",
          "rc:fps_out_denorm"}
    [] kind = "kBitRateChange" -> {"rc:bps_min", "rc:bps_max", "rc:bps_target"}
    [] kind = "kRcModeChange" ->
         {"rc:mode", "rc:bps_min", "rc:bps_max", "rc:bps_target"}
    [] kind = "kGopChange" -> {"rc:gop"}
    [] kind = "kQPChange" ->
         {"jpeg:quant", "h264:qp_init", "h264:qp_max", "h264:qp_min",
          "h264:qp_step", "h264:qp_max_i", "h264:qp_min_i", "h265:qp_init",
          "h265:qp_max", "h265:qp_min", "h265:qp_step", "h265:qp_max_i",
          "h265:qp_min_i"}
    [] kind = "kSplitChange" -> {"split:mode", "split:arg"}
    [] OTHER -> {}

C21_Cmds(kind) ==
  CASE kind \in {"kFrameRateChange", "kBitRateChange", "kRcModeChange",
                 "kGopChange", "kQPChange", "kSplitChange"} ->
         {"MPP_ENC_SET_CFG"}
    [] kind = "kForceIdrFrame" -> {"MPP_ENC_SET_IDR_FRAME"}
    [] OTHER -> {}

C21_Fields(kind) ==
  CASE kind = "kFrameRateChange" -> {"frame_rate"}
    [] kind = "kBitRateChange" -> {"bit_rate"}
    [] kind = "kRcModeChange" -> {"rc_mode"}
    [] kind = "kGopChange" -> {"gop_size"}
    [] kind = "kQPChange" ->
         {"qp_init", "qp_min", "qp_max", "qp_step", "max_i_qp", "min_i_qp"}
    [] OTHER -> {}

(* This step is a change call whose every effect belongs to `kind`, and    *)
(* which, no library or channel failure occurring, ends exactly as the     *)
(* same request with `kind` as its only bit does.                          *)
C21_ProcessedAs(kind) ==
  /\ last'.sets \subseteq C21_Keys(kind)
  /\ Range(last'.cmds) \subseteq C21_Cmds(kind)
  /\ (last'.roi # -1) => kind = "kROICfgChange"
  /\ (statistics' # statistics) => kind = "kEnableStatistics"
  /\ \A k \in DOMAIN cfgobj :
       cfgobj'[k] # cfgobj[k] => k \in C21_Keys(kind)
  /\ \A f \in DOMAIN config :
       config'[f] # config[f] => f \in C21_Fields(kind)
  /\ (faults' = faults /\ last'.fwd /\ kind # "none") =>
       Outcome(last'.ret, last'.why, last'.cmds, last'.sets, last'.roi, calc',
               cfgobj', hw', config')
         = StrategyChange([last'.req EXCEPT !.change = {kind}], NoFail)

(* C21 as stated: a change request with more than one kind bit set, in    *)
(* whichever session, is processed as the first of its kinds in the order  *)
(* statistics, frame rate, bitrate, rate-control mode, rate-control        *)
(* quality, GOP, quantization, region of interest, forced keyframe,        *)
(* split; nothing belonging to another of its kinds is submitted, issued   *)
(* or cached, and the outcome is a function of the request and the state.  *)
C21_OneKindByPriority ==
  [][(Calls("change") /\ proc' = "running"
        /\ Cardinality(last'.req.change) > 1)
       => C21_ProcessedAs(C21_First(C21_Order, last'.req.change))]_vars

(* The order a session tests the kinds in: the controller tests statistics, *)
(* then the still-image strategy tests quantization alone and the video    *)
(* strategy the rest of the order.                                         *)
C21_OrderOf(strategy) ==
  IF strategy = "mjpeg" THEN <<"kEnableStatistics", "kQPChange">>
  ELSE C21_Order

(* C21 with the still-image strategy set apart: a change request with     *)
(* more than one kind bit set is processed as the first of its kinds in    *)
(* the order of its session (the stated order in a video session,          *)
(* statistics then quantization in a still-image session); nothing         *)
(* belonging to another of its kinds is submitted, issued or cached, and   *)
(* the outcome is a function of the request and the state.                 *)
C21_OneKindBySessionOrder ==
  [][(Calls("change") /\ proc' = "running"
        /\ Cardinality(last'.req.change) > 1)
       => C21_ProcessedAs(C21_First(C21_OrderOf(mpp_config),
                                    last'.req.change))]_vars

(* A configured video session has taken a request with the bitrate and GOP *)
(* bits as a bitrate change: the ceiling is the payload, the GOP size is   *)
(* not.                                                                    *)
C21_Witness ==
  /\ configured /\ mpp_config = "common" /\ config.type = "Video"
  /\ last.op = "change" /\ last.fwd /\ last.ret
  /\ last.req.change = {"kBitRateChange", "kGopChange"}
  /\ last.req.value = 2000
  /\ config.bit_rate = 2000 /\ config.gop_size = 30
  /\ last.sets = {"rc:bps_min", "rc:bps_max", "rc:bps_target"}
  /\ cfgobj["rc:gop"] = 30

(* C22: in every reachable state of a configured video session, after any  *)
(* sequence of change requests, the cached VideoConfig has                 *)
(* qp_min <= qp_init <= qp_max and 0 <= qp_step <= qp_max - qp_min.        *)
C22_QpConsistent ==
  (configured /\ mpp_config = "common")
    => /\ config.qp_min <= config.qp_init
       /\ config.qp_init <= config.qp_max
       /\ 0 <= config.qp_step
       /\ config.qp_step <= config.qp_max - config.qp_min

(* C23: in both strategies InitConfig issues MPP_ENC_SET_CFG only after    *)
(* MPP_SET_OUTPUT_TIMEOUT and then MPP_SET_INPUT_TIMEOUT have succeeded;   *)
(* an InitConfig that leaves either queue out of blocking mode has failed, *)
(* has submitted no key and has not issued MPP_ENC_SET_CFG, so the         *)
(* configuration object and the applied configuration are still at their   *)
(* defaults; and every configured session has both queues blocking.        *)
C23_BlockingBeforeApply ==
  /\ configured => (hw.out_block /\ hw.in_block)
  /\ (last.op = "init" /\ last.fwd) =>
       /\ "MPP_ENC_SET_CFG" \in Range(last.cmds) =>
            /\ Len(last.cmds) >= 3
            /\ last.cmds[1] = "MPP_SET_OUTPUT_TIMEOUT"
            /\ last.cmds[2] = "MPP_SET_INPUT_TIMEOUT"
            /\ last.cmds[3] = "MPP_ENC_SET_CFG"
            /\ hw.out_block /\ hw.in_block
       /\ "MPP_SET_INPUT_TIMEOUT" \in Range(last.cmds) =>
            (last.cmds[1] = "MPP_SET_OUTPUT_TIMEOUT" /\ hw.out_block)
       /\ last.sets # {} => (hw.out_block /\ hw.in_block)
       /\ (~hw.out_block \/ ~hw.in_block) =>
            /\ ~last.ret
            /\ last.sets = {}
            /\ "MPP_ENC_SET_CFG" \notin Range(last.cmds)
            /\ cfgobj = ZeroObj(coding_type)
            /\ hw.applied = ZeroObj(coding_type)

(* A video InitConfig has failed because the input queue could not be set  *)
(* to blocking mode, the output queue having been set.                     *)
C23_Witness ==
  /\ last.op = "init" /\ last.fwd /\ ~last.ret /\ last.why = "hardware"
  /\ mpp_config = "common"
  /\ last.cmds = <<"MPP_SET_OUTPUT_TIMEOUT", "MPP_SET_INPUT_TIMEOUT">>
  /\ hw.out_block /\ ~hw.in_block
  /\ ~configured /\ cfgobj = ZeroObj(coding_type)

(* The cached rate-control name resolves to constant or variable.          *)
C24_Resolves(name) == GetMPPRCMode(name) \in {"CBR", "VBR"}

(* C24: in every state of a configured video session the cached rate-      *)
(* control mode resolves to constant or variable. A video InitConfig given *)
(* fixed-QP or any other mode fails, so after a video InitConfig the       *)
(* quantization-init key never holds the sentinel -1; a rate-control-mode  *)
(* change to fixed-QP or any other mode fails; and a bitrate change on a   *)
(* configured video session that fails on a check of its own was given a   *)
(* ceiling outside [kMPPMinBps, kMPPMaxBps].                               *)
C24_ModeConstantOrVariable ==
  /\ (configured /\ mpp_config = "common") => C24_Resolves(config.rc_mode)
  /\ (last.op = "init" /\ last.fwd /\ mpp_config = "common") =>
       /\ ~C24_Resolves(last.cfg.rc_mode) => (~last.ret /\ last.sets = {})
       /\ last.ret => /\ C24_Resolves(last.cfg.rc_mode)
                      /\ config.rc_mode = last.cfg.rc_mode
       /\ cfgobj[QpKey(coding_type).qp_init] # -1
       /\ hw.applied[QpKey(coding_type).qp_init] # -1
  /\ (last.op = "change" /\ last.fwd /\ mpp_config = "common"
        /\ enc_cfg = "live" /\ "kRcModeChange" \in last.req.change
        /\ "kFrameRateChange" \notin last.req.change
        /\ "kBitRateChange" \notin last.req.change) =>
       /\ ~C24_Resolves(last.req.mode) => (~last.ret /\ last.sets = {})
       /\ last.ret => GetMPPRCMode(config.rc_mode)
                        = GetMPPRCMode(last.req.mode)
  /\ (last.op = "change" /\ last.fwd /\ mpp_config = "common" /\ configured
        /\ "kBitRateChange" \in last.req.change
        /\ "kFrameRateChange" \notin last.req.change) =>
       /\ calc.called /\ calc.rc_mode \in {"CBR", "VBR"}
       /\ calc.rc_mode = GetMPPRCMode(config.rc_mode)
       /\ (~last.ret /\ last.why # "hardware")
            => (last.req.value < kMPPMinBps \/ last.req.value > kMPPMaxBps)

(* A configured constant-rate video session has refused a change to the    *)
(* fixed-QP mode: the derivation was called with that mode and failed.     *)
C24_Witness ==
  /\ configured /\ mpp_config = "common" /\ config.type = "Video"
  /\ last.op = "change" /\ last.fwd /\ ~last.ret /\ last.why = "validation"
  /\ last.req.change = {"kRcModeChange"} /\ last.req.mode = "fixqp"
  /\ calc.called /\ calc.rc_mode = "FIXQP" /\ calc.ret < 0
  /\ config.rc_mode = "cbr" /\ cfgobj["rc:mode"] = RcModeValue("CBR")

====
